---- MODULE Spec2Model ----
(***************************************************************************)
(* Model of DeepseekChatViewProvider (src/src/extension.ts): the chat      *)
(* session (_handleMessage, webviewReady replay), the completion call      *)
(* (_callDeepSeekAPI) and the response-to-file pipeline                    *)
(* (_processResponseForFiles, _extractCodeBlocks, _getFileExtension,       *)
(* _createFile).                                                           *)
(*                                                                         *)
(* Text is a sequence of one-character strings.  JavaScript runs each      *)
(* handler to completion between awaits, so one action of the model is one *)
(* run of code between two suspension points; the order of the effects     *)
(* inside a run is kept in the effect log.                                 *)
(***************************************************************************)
EXTENDS Integers, Sequences, FiniteSets, TLC

\* ------------------------------------------------------------------------
\* Text helpers (JavaScript string and RegExp primitives)
\* ------------------------------------------------------------------------

UpperLetters == <<"A","B","C","D","E","F","G","H","I","J","K","L","M",
                  "N","O","P","Q","R","S","T","U","V","W","X","Y","Z">>

LowerLetters == <<"a","b","c","d","e","f","g","h","i","j","k","l","m",
                  "n","o","p","q","r","s","t","u","v","w","x","y","z">>

Digits == {"0","1","2","3","4","5","6","7","8","9"}

\* \s of the regular expressions (the ASCII part of it)
WhiteSpace == {" ", "\n", "\t", "\r"}

\* [a-zA-Z0-9]
IsAlnum(c) ==
  \/ \E k \in 1..26 : UpperLetters[k] = c \/ LowerLetters[k] = c
  \/ c \in Digits

\* \w of the regular expressions
IsWord(c) == IsAlnum(c) \/ c = "_"

\* String.prototype.toLowerCase, one character
LowerChar(c) ==
  IF \E k \in 1..26 : UpperLetters[k] = c
    THEN LowerLetters[CHOOSE k \in 1..26 : UpperLetters[k] = c]
    ELSE c

\* String.prototype.toLowerCase
toLowerCase(s) == [k \in 1..Len(s) |-> LowerChar(s[k])]

\* s.startsWith(p, i) with 1-based i
StartsWithAt(s, i, p) ==
  /\ i >= 1
  /\ i + Len(p) - 1 <= Len(s)
  /\ \A k \in 1..Len(p) : s[i + k - 1] = p[k]

\* the least element of a non-empty set of integers
Least(S) == CHOOSE x \in S : \A y \in S : x <= y

\* the greatest element of a non-empty set of integers
Greatest(S) == CHOOSE x \in S : \A y \in S : x >= y

IsSpace(c) == c \in WhiteSpace

\* \w* from i: the first index >= i that holds no word character, Len(s)+1
\* when there is none
WordRunEnd(s, i) ==
  Least({e \in i..(Len(s) + 1) : e = Len(s) + 1 \/ ~IsWord(s[e])})

\* \s* from i: the first index >= i that holds no white space, Len(s)+1
\* when there is none
SpaceRunEnd(s, i) ==
  Least({e \in i..(Len(s) + 1) : e = Len(s) + 1 \/ ~IsSpace(s[e])})

\* String.prototype.trim
trim(s) ==
  LET keep == {k \in 1..Len(s) : ~IsSpace(s[k])}
  IN  IF keep = {} THEN <<>> ELSE SubSeq(s, Least(keep), Greatest(keep))

\* ------------------------------------------------------------------------
\* _extractCodeBlocks: /```(\w+)?\s*\n([\s\S]*?)\n```/g
\* ------------------------------------------------------------------------

\* the backquote character (a string literal cannot hold it)
Backquote == "BACKQUOTE"

Fence == <<Backquote, Backquote, Backquote>>

CloseFence == <<"\n">> \o Fence

\* the positions >= c where the closing "\n```" of the pattern matches
ClosesFrom(s, c) == {j \in c..Len(s) : StartsWithAt(s, j, CloseFence)}

\* One attempt of the pattern at position i.  (\w+)? takes the longest run
\* of word characters; \s* is greedy and gives characters back until the
\* next one is "\n" and the rest matches; ([\s\S]*?) is lazy and stops at
\* the nearest "\n```".  The result is <<>> when the attempt fails.
MatchBlockAt(s, i) ==
  IF ~StartsWithAt(s, i, Fence) THEN <<>>
  ELSE
    LET langEnd == WordRunEnd(s, i + 3)
        wsEnd   == SpaceRunEnd(s, langEnd)
        nls     == {n \in langEnd..(wsEnd - 1) :
                      s[n] = "\n" /\ ClosesFrom(s, n + 1) # {}}
    IN  IF nls = {} THEN <<>>
        ELSE LET n == Greatest(nls)
                 j == Least(ClosesFrom(s, n + 1))
             IN  << [language |-> SubSeq(s, i + 3, langEnd - 1),
                     code     |-> trim(SubSeq(s, n + 1, j - 1)),
                     next     |-> j + Len(CloseFence)] >>

RECURSIVE ExecFrom(_, _)
\* the while loop over codeBlockRegex.exec, lastIndex = i - 1
ExecFrom(s, i) ==
  LET hits == {p \in i..Len(s) : MatchBlockAt(s, p) # <<>>}
  IN  IF hits = {} THEN <<>>
      ELSE LET m == MatchBlockAt(s, Least(hits))[1]
           IN  << [language |-> m.language, code |-> m.code] >>
               \o ExecFrom(s, m.next)

_extractCodeBlocks(response) == ExecFrom(response, 1)

\* ------------------------------------------------------------------------
\* _getFileExtension
\* ------------------------------------------------------------------------

extensionMap ==
  <<
     [key |-> <<"h","t","m","l">>,
      val |-> <<"h","t","m","l">>],
     [key |-> <<"j","a","v","a","s","c","r","i","p","t">>,
      val |-> <<"j","s">>],
     [key |-> <<"t","y","p","e","s","c","r","i","p","t">>,
      val |-> <<"t","s">>],
     [key |-> <<"c","s","s">>,
      val |-> <<"c","s","s">>],
     [key |-> <<"p","y","t","h","o","n">>,
      val |-> <<"p","y">>],
     [key |-> <<"j","a","v","a">>,
      val |-> <<"j","a","v","a">>],
     [key |-> <<"c">>,
      val |-> <<"c">>],
     [key |-> <<"c","p","p">>,
      val |-> <<"c","p","p">>],
     [key |-> <<"p","h","p">>,
      val |-> <<"p","h","p">>],
     [key |-> <<"r","u","b","y">>,
      val |-> <<"r","b">>],
     [key |-> <<"g","o">>,
      val |-> <<"g","o">>],
     [key |-> <<"r","u","s","t">>,
      val |-> <<"r","s">>],
     [key |-> <<"s","w","i","f","t">>,
      val |-> <<"s","w","i","f","t">>],
     [key |-> <<"k","o","t","l","i","n">>,
      val |-> <<"k","t">>],
     [key |-> <<"s","q","l">>,
      val |-> <<"s","q","l">>],
     [key |-> <<"j","s","o","n">>,
      val |-> <<"j","s","o","n">>],
     [key |-> <<"x","m","l">>,
      val |-> <<"x","m","l">>],
     [key |-> <<"m","a","r","k","d","o","w","n">>,
      val |-> <<"m","d">>],
     [key |-> <<"y","a","m","l">>,
      val |-> <<"y","m","l">>],
     [key |-> <<"s","h","e","l","l">>,
      val |-> <<"s","h">>]
  >>

\* extensionMap is an object literal: a lookup also finds the properties it
\* inherits from Object.prototype, and these values are truthy
InheritedKeys ==
  {<<"c","o","n","s","t","r","u","c","t","o","r">>,
   <<"_","_","p","r","o","t","o","_","_">>}

\* what a template literal renders for an inherited property's value
InheritedText(key) ==
  IF key = <<"_","_","p","r","o","t","o","_","_">>
    THEN <<"[","o","b","j","e","c","t"," ","O","b","j","e","c","t","]">>
    ELSE <<"f","u","n","c","t","i","o","n"," ","O","b","j","e","c","t",
           "(",")"," ","{"," ","[","n","a","t","i","v","e"," ","c","o","d","e","]"," ","}">>

TxtExt == <<"t","x","t">>

_getFileExtension(language) ==
  LET key  == toLowerCase(language)
      hits == {k \in 1..Len(extensionMap) : extensionMap[k].key = key}
  IN  IF hits # {} THEN extensionMap[CHOOSE k \in hits : TRUE].val
      ELSE IF key \in InheritedKeys THEN InheritedText(key)
      ELSE TxtExt

\* ------------------------------------------------------------------------
\* the file name chosen by _createFile
\* ------------------------------------------------------------------------

DigitChars == <<"0","1","2","3","4","5","6","7","8","9">>

RECURSIVE DecChars(_)
\* the decimal rendering of a natural number in a template literal
DecChars(n) ==
  IF n < 10 THEN <<DigitChars[n + 1]>>
  ELSE DecChars(n \div 10) \o <<DigitChars[(n % 10) + 1]>>

HtmlExt == <<"h","t","m","l">>

PyExt == <<"p","y">>

TitleOpen == <<"<","t","i","t","l","e",">">>

TitleClose == <<"<","/","t","i","t","l","e",">">>

\* "." of a regular expression matches anything but a line terminator
IsLineTerminator(c) == c \in {"\n", "\r"}

\* content.match(/<title>(.*?)<\/title>/i): <<group 1>>, or <<>> for null.
\* The tags are matched without regard to case; the lazy group ends at the
\* nearest closing tag and cannot cross a line terminator.
TitleMatch(content) ==
  LET low   == toLowerCase(content)
      ends(i) == {j \in (i + Len(TitleOpen))..Len(content) :
                    StartsWithAt(low, j, TitleClose)}
      ok(i) == /\ StartsWithAt(low, i, TitleOpen)
               /\ ends(i) # {}
               /\ \A k \in (i + Len(TitleOpen))..(Least(ends(i)) - 1) :
                     ~IsLineTerminator(content[k])
      hits  == {i \in 1..Len(content) : ok(i)}
  IN  IF hits = {} THEN <<>>
      ELSE LET i == Least(hits)
           IN  << SubSeq(content, i + Len(TitleOpen), Least(ends(i)) - 1) >>

\* titleMatch[1].replace(/[^a-zA-Z0-9]/g, '_').toLowerCase()
TitleSlug(title) ==
  toLowerCase([k \in 1..Len(title) |->
                 IF IsAlnum(title[k]) THEN title[k] ELSE "_"])

DefWord == <<"d","e","f">>

IsIdentStart(c) == IsWord(c) /\ c \notin Digits

\* content.match(/def\s+([a-zA-Z_][a-zA-Z0-9_]*)\s*\(/): <<group 1>> or <<>>
FuncMatch(content) ==
  LET ws(i)  == SpaceRunEnd(content, i + Len(DefWord))
      id(i)  == WordRunEnd(content, ws(i))
      par(i) == SpaceRunEnd(content, id(i))
      ok(i)  == /\ StartsWithAt(content, i, DefWord)
                /\ ws(i) > i + Len(DefWord)
                /\ ws(i) <= Len(content)
                /\ IsIdentStart(content[ws(i)])
                /\ par(i) <= Len(content)
                /\ content[par(i)] = "("
      hits   == {i \in 1..Len(content) : ok(i)}
  IN  IF hits = {} THEN <<>>
      ELSE LET i == Least(hits)
           IN  << SubSeq(content, ws(i), id(i) - 1) >>

\* 'generated_' (line 271)
GeneratedPrefix == <<"g","e","n","e","r","a","t","e","d","_">>

\* `generated_${Date.now()}.${extension}`
DefaultName(now, extension) ==
  GeneratedPrefix \o DecChars(now) \o <<".">> \o extension

\* lines 270-284 of _createFile: the name for content, extension and clock
FileNameFor(content, extension, now) ==
  IF extension = HtmlExt /\ TitleMatch(content) # <<>>
       /\ TitleMatch(content)[1] # <<>>
    THEN TitleSlug(TitleMatch(content)[1]) \o <<".">> \o extension
  ELSE IF extension = PyExt /\ FuncMatch(content) # <<>>
       /\ FuncMatch(content)[1] # <<>>
    THEN FuncMatch(content)[1] \o <<".">> \o PyExt
  ELSE DefaultName(now, extension)

\* ------------------------------------------------------------------------
\* Bounds and input domains
\* ------------------------------------------------------------------------

\* accepted _handleMessage invocations in one behaviour
MaxTurns == 2

\* 'hi'
MsgHi == <<"h","i">>

Messages == {MsgHi}

Models == {"deepseek-chat"}

\* 'https://api.deepseek.com/v1/chat/completions' (line 107)
DefaultEndpoint == "https://api.deepseek.com/v1/chat/completions"

\* the values of the 'endpoint' setting: unset, a URL, not a URL
MalformedEndpoint == "not a url"

Endpoints == {"", MalformedEndpoint}

\* new URL(endpoint) does not throw
UrlParses(endpoint) == endpoint # MalformedEndpoint

\* the values of the 'apiKey' setting: unset, a key, a key with a line
\* break in it (not a legal header value)
KeyGood == <<"s","k">>

KeyBadHeader == <<"s","\n">>

ApiKeys == {<<>>, KeyGood, KeyBadHeader}

\* https.request throws on a header value with a control character
HeaderValueLegal(apiKey) == \A k \in 1..Len(apiKey) : apiKey[k] \notin {"\n", "\r"}

\* the settings a turn may read (line 105): every combination with a usable
\* key, and one for each key that stops the turn before the request
Configs ==
  {cfg \in [apiKey : ApiKeys, endpoint : Endpoints, allowEditing : BOOLEAN] :
     cfg.apiKey # KeyGood => (cfg.endpoint = "" /\ cfg.allowEditing)}

\* vscode.workspace.workspaceFolders: undefined, [], [folder]
WorkspaceStates == {"undefined", "empty", "one"}

\* assistant texts the provider may answer with
\* 'ok'
RespPlain == <<"o","k">>

\* '```\na\n```\n```\nb\n```'
RespTwoBlocks == <<Backquote,Backquote,Backquote,"\n","a","\n",Backquote,Backquote,Backquote,"\n",Backquote,Backquote,Backquote,"\n","b","\n",Backquote,Backquote,Backquote>>

Responses == {RespPlain, RespTwoBlocks}

\* 'quota'
RawQuota == <<"q","u","o","t","a">>

\* 'slow down'
MsgSlow == <<"s","l","o","w"," ","d","o","w","n">>

\* a response body: its text and what JSON.parse makes of it (<<>> when it
\* throws); an absent member is <<>>, a present one <<value>>
BodyOf(raw, parsed) == [raw |-> raw, parsed |-> parsed]

JsonObj(choices, error) == [choices |-> choices, error |-> error]

\* {"choices":[{"message":{"content":r}}]}
BodyCompletion(r) ==
  BodyOf(<<"{">>, <<JsonObj(<< <<[message |-> <<[content |-> r]>>]>> >>, <<>>)>>)

\* not JSON
BodyGarbage == BodyOf(RawQuota, <<>>)

\* {}
BodyNoChoices == BodyOf(<<"{","}">>, <<JsonObj(<<>>, <<>>)>>)

\* {"choices":[]}
BodyEmptyChoices == BodyOf(<<"{">>, <<JsonObj(<< <<>> >>, <<>>)>>)

\* {"choices":[{}]}
BodyNoMessage == BodyOf(<<"{">>, <<JsonObj(<< <<[message |-> <<>>]>> >>, <<>>)>>)

\* {"error":{"message":"slow down"}}
BodyError == BodyOf(<<"{">>, <<JsonObj(<<>>, <<[message |-> <<MsgSlow>>]>>)>>)

\* {"error":{"message":""}}
BodyErrorEmpty == BodyOf(<<"{","e","}">>, <<JsonObj(<<>>, <<[message |-> << <<>> >>]>>)>>)

\* what the transport can deliver for one request: a complete response
\* with a status and a body, or an 'error' event
ApiOutcomes ==
  {[status |-> 200, body |-> BodyCompletion(r), neterr |-> FALSE] : r \in Responses}
  \cup
  {[status |-> 200, body |-> b, neterr |-> FALSE] :
      b \in {BodyGarbage, BodyNoChoices, BodyEmptyChoices, BodyNoMessage}}
  \cup
  {[status |-> 401, body |-> BodyError, neterr |-> FALSE],
   [status |-> 500, body |-> BodyError, neterr |-> FALSE],
   [status |-> 500, body |-> BodyErrorEmpty, neterr |-> FALSE],
   [status |-> 503, body |-> BodyGarbage, neterr |-> FALSE],
   [status |-> 0, body |-> BodyGarbage, neterr |-> TRUE]}

\* ------------------------------------------------------------------------
\* Message texts
\* ------------------------------------------------------------------------

\* 'Error: Please set your DeepSeek API key in settings.' (line 115)
TextNoApiKey == <<"E","r","r","o","r",":"," ","P","l","e","a","s","e"," ","s","e","t"," ","y","o","u","r"," ","D","e","e","p","S","e","e","k"," ","A","P","I"," ","k","e","y"," ","i","n"," ","s","e","t","t","i","n","g","s",".">>

\* 'Error: ' (line 184)
ErrorPrefix == <<"E","r","r","o","r",":"," ">>

\* 'No response from API' (line 347)
ErrNoResponse == <<"N","o"," ","r","e","s","p","o","n","s","e"," ","f","r","o","m"," ","A","P","I">>

\* 'Failed to parse API response' (line 350)
ErrParse == <<"F","a","i","l","e","d"," ","t","o"," ","p","a","r","s","e"," ","A","P","I"," ","r","e","s","p","o","n","s","e">>

\* 'Authentication failed. Please check your API key in settings.' (line 353)
ErrAuth == <<"A","u","t","h","e","n","t","i","c","a","t","i","o","n"," ","f","a","i","l","e","d","."," ","P","l","e","a","s","e"," ","c","h","e","c","k"," ","y","o","u","r"," ","A","P","I"," ","k","e","y"," ","i","n"," ","s","e","t","t","i","n","g","s",".">>

\* 'API error: ' and ' - ' (lines 358, 360)
ErrApiPrefix == <<"A","P","I"," ","e","r","r","o","r",":"," ">>

ErrApiSep == <<" ","-"," ">>

\* 'Invalid API endpoint: ' (line 373)
ErrEndpointPrefix == <<"I","n","v","a","l","i","d"," ","A","P","I"," ","e","n","d","p","o","i","n","t",":"," ">>

\* the message of the transport's error event, e.g. 'ECONNREFUSED'
ErrTransport == <<"E","C","O","N","N","R","E","F","U","S","E","D">>

\* 'No workspace folder open' (line 264)
NoteNoWorkspace == <<"N","o"," ","w","o","r","k","s","p","a","c","e"," ","f","o","l","d","e","r"," ","o","p","e","n">>

\* 'Error creating file: ' (line 299)
NoteCreatePrefix == <<"E","r","r","o","r"," ","c","r","e","a","t","i","n","g"," ","f","i","l","e",":"," ">>

\* the TypeError of workspaceFolders[0].uri on an empty list
ErrUndefinedUri == <<"C","a","n","n","o","t"," ","r","e","a","d"," ","p","r","o","p","e","r","t","i","e","s"," ","o","f"," ","u","n","d","e","f","i","n","e","d"," ","(","r","e","a","d","i","n","g"," ","'","u","r","i","'",")">>

\* the message of a rejected fs.writeFile, e.g. 'EACCES'
ErrWrite == <<"E","A","C","C","E","S">>

\* the message of a rejected openTextDocument or showTextDocument
ErrOpen == <<"c","a","n","n","o","t"," ","o","p","e","n">>

\* the check mark that starts the 'Created' line (line 158)
CheckMark == "CHECKMARK"

\* ' Created ' and ' file(s):\n'
CreatedWord == <<" ","C","r","e","a","t","e","d"," ">>

CreatedTail == <<" ","f","i","l","e","(","s",")",":","\n">>

RECURSIVE JoinLines(_)
\* createdFiles.join('\n')
JoinLines(names) ==
  IF names = <<>> THEN <<>>
  ELSE IF Len(names) = 1 THEN names[1]
  ELSE names[1] \o <<"\n">> \o JoinLines(Tail(names))

\* the template literal of line 158
CreatedText(createdFiles, response) ==
  <<CheckMark>> \o CreatedWord \o DecChars(Len(createdFiles)) \o CreatedTail
    \o JoinLines(createdFiles) \o <<"\n", "\n">> \o response

\* the endpoint as text in the error message (its characters are not modelled)
EndpointChars(endpoint) == <<endpoint>>

\* ------------------------------------------------------------------------
\* State
\* ------------------------------------------------------------------------

VARIABLES
  view,                 \* _view is set (resolveWebviewView has run)
  conversationHistory,  \* _conversationHistory
  isProcessing,         \* _isProcessing
  selectedModel,        \* _selectedModel
  calls,                \* the invocations of _handleMessage that passed the
                        \* guard of line 93 and have not returned, and the
                        \* last one that has: their locals and position
  turnCount,            \* how many invocations have passed the guard so far
  clock,                \* the last value Date.now() returned
  log,                  \* the effects of _handleMessage since the last
                        \* sendMessage event was accepted, in order
  dropped,              \* the event handled last was a sendMessage event
                        \* that returned at line 94
  replay,               \* <<>>, or <<r>> for the last webviewReady event
                        \* handled since a sendMessage event was accepted:
                        \* the invocations in progress then, and what the
                        \* handler posted, in order
  probe                 \* one call of a helper of the file pipeline taken
                        \* on its own: the helper, its argument, whether
                        \* it has returned, and its result

vars == <<view, conversationHistory, isProcessing, selectedModel, calls,
          turnCount, clock, log, dropped, replay, probe>>

Msg(role, content) == [role |-> role, content |-> content]

\* an entry of the effect log: what happened (val is a record whose fields
\* depend on the kind), and the number of the invocation of _handleMessage
\* it happened in (0: outside any)
Effect(t, kind, val) == [turn |-> t, kind |-> kind, val |-> val]

\* {type: 'addMessage', value: {text, isUser}}
AddMessage(text, isUser) ==
  [type |-> "addMessage", value |-> [text |-> text, isUser |-> isUser]]

\* {type: 'setTypingIndicator', value: on}
SetTypingIndicator(on) == [type |-> "setTypingIndicator", value |-> [on |-> on]]

\* lines 62-68
SetModels ==
  [type |-> "setModels",
   value |-> [models |-> <<[id |-> "deepseek-chat", name |-> "DeepSeek Chat"],
                           [id |-> "deepseek-coder", name |-> "DeepSeek Coder"]>>]]

\* _safePostMessage: the message goes to the webview when there is one
_safePostMessage(lg, t, message) ==
  IF view THEN Append(lg, Effect(t, "post", message)) ELSE lg

\* this._conversationHistory.push(m), noted in the log
PushEffect(lg, t, m) == Append(lg, Effect(t, "push", m))

\* this._isProcessing = false, noted in the log
IdleEffect(lg, t) == Append(lg, Effect(t, "idle", [processing |-> FALSE]))

\* vscode.window.showErrorMessage(text)
showErrorMessage(lg, t, text) == Append(lg, Effect(t, "notify", [text |-> text]))

\* The outcome of one run of _handleMessage between two suspension points:
\* the invocation's record, the history, the log, and whether the run has
\* set _isProcessing to false.
Run(c, hist, lg, idle) == [c |-> c, hist |-> hist, log |-> lg, idle |-> idle]

\* a call of helper fn with argument arg that has not returned
Call(fn, arg) == [fn |-> fn, arg |-> arg, done |-> FALSE, out |-> <<>>]

\* no helper is called on its own
NoCall == Call("none", <<>>)

\* the provider after its construction
SessionInit ==
  /\ view = FALSE
  /\ conversationHistory = <<>>
  /\ isProcessing = FALSE
  /\ selectedModel = "deepseek-chat"
  /\ calls = <<>>
  /\ turnCount = 0
  /\ clock = 0
  /\ log = <<>>
  /\ dropped = FALSE
  /\ replay = <<>>

Init == SessionInit /\ probe = NoCall

\* ------------------------------------------------------------------------
\* _callDeepSeekAPI
\* ------------------------------------------------------------------------

Resolve(text) == [ok |-> TRUE, val |-> text]

Reject(message) == [ok |-> FALSE, val |-> message]

\* the 'end' handler without the test of the status code
OnEnd_AnyStatus(statusCode, body) ==
  IF body.parsed = <<>> THEN Resolve(body.raw)
  ELSE LET response == body.parsed[1]
       IN  IF response.choices # <<>> /\ Len(response.choices[1]) > 0
                /\ response.choices[1][1].message # <<>>
             THEN Resolve(response.choices[1][1].message[1].content)
             ELSE Resolve(body.raw)

\* lines 340-363: the 'end' handler of the response
OnEnd(statusCode, body) ==
  IF statusCode = 200 THEN
    IF body.parsed = <<>> THEN Reject(ErrParse)
    ELSE LET response == body.parsed[1]
         IN  IF response.choices # <<>> /\ Len(response.choices[1]) > 0
               THEN IF response.choices[1][1].message = <<>>
                      THEN Reject(ErrParse)
                      ELSE Resolve(response.choices[1][1].message[1].content)
               ELSE Reject(ErrNoResponse)
  ELSE IF statusCode = 401 THEN Reject(ErrAuth)
  ELSE
    LET detail ==
          IF body.parsed # <<>> /\ body.parsed[1].error # <<>>
               /\ body.parsed[1].error[1].message # <<>>
               /\ body.parsed[1].error[1].message[1] # <<>>
            THEN body.parsed[1].error[1].message[1]
            ELSE body.raw
    IN  Reject(ErrApiPrefix \o DecChars(statusCode) \o ErrApiSep \o detail)

\* _callDeepSeekAPI without the handler of the request's 'error' event
Settle_WithoutErrorHandler(outcome) == OnEnd(outcome.status, outcome.body)

\* lines 340-368: how the promise settles for what the transport delivers
Settle(outcome) ==
  IF outcome.neterr THEN Reject(ErrTransport)
  ELSE OnEnd(outcome.status, outcome.body)

\* lines 320-374: the request leaves unless the try block throws, either in
\* new URL(endpoint) or in https.request(options)
RequestThrows(endpoint, apiKey) ==
  ~UrlParses(endpoint) \/ ~HeaderValueLegal(apiKey)

\* line 373
InvalidEndpoint(endpoint) == ErrEndpointPrefix \o EndpointChars(endpoint)

\* ------------------------------------------------------------------------
\* _handleMessage
\* ------------------------------------------------------------------------

\* line 93 without the test of _isProcessing
Busy_IgnoresFlag == ~view

\* line 93: the event is ignored
Busy == ~view \/ isProcessing

\* _handleMessage without the finally block
Finally_Missing(r, t) == r

\* lines 188-190: finally
Finally(r, t) == Run(r.c, r.hist, IdleEffect(r.log, t), TRUE)

\* the catch block without the post that hides the typing indicator
Catch_KeepsTyping(c, hist, lg, t, errorMessage) ==
  LET lg2 == _safePostMessage(lg, t, AddMessage(ErrorPrefix \o errorMessage, FALSE))
  IN  Finally(Run([c EXCEPT !.pc = "done", !.outcome = "error"], hist, lg2, FALSE), t)

\* the catch block issuing the request again instead of reporting the error
Catch_Retries(c, hist, lg, t, errorMessage) ==
  Run([c EXCEPT !.pc = "awaitApi"], hist,
      Append(lg, Effect(t, "request",
                        [endpoint |-> c.cfg.endpoint, model |-> c.model,
                         messages |-> hist])),
      FALSE)

\* the catch block taking the user's message back out of the history
Catch_DropsUserMessage(c, hist, lg, t, errorMessage) ==
  LET lg1 == _safePostMessage(lg, t, SetTypingIndicator(FALSE))
      lg2 == _safePostMessage(lg1, t, AddMessage(ErrorPrefix \o errorMessage, FALSE))
  IN  Finally(Run([c EXCEPT !.pc = "done", !.outcome = "error"],
                  SubSeq(hist, 1, Len(hist) - 1), lg2, FALSE), t)

\* lines 172-187 and the finally block: an error thrown inside the try
Catch(c, hist, lg, t, errorMessage) ==
  LET lg1 == _safePostMessage(lg, t, SetTypingIndicator(FALSE))
      lg2 == _safePostMessage(lg1, t, AddMessage(ErrorPrefix \o errorMessage, FALSE))
  IN  Finally(Run([c EXCEPT !.pc = "done", !.outcome = "error"], hist, lg2, FALSE), t)

\* lines 153-170 and the finally block: the assistant message of a turn
ShowResponse(c, hist, lg, t) ==
  LET text == IF Len(c.createdFiles) > 0
                THEN CreatedText(c.createdFiles, c.response)
                ELSE c.response
      lg1  == _safePostMessage(lg, t, AddMessage(text, FALSE))
  IN  Finally(Run([c EXCEPT !.pc = "done", !.outcome = "ok"], hist, lg1, FALSE), t)

\* the catch block of _createFile without the notification
CreateFileCatch_Silent(lg, t, errorMessage) == lg

\* lines 297-300: the catch block of _createFile
CreateFileCatch(lg, t, errorMessage) ==
  showErrorMessage(lg, t, NoteCreatePrefix \o errorMessage)

RECURSIVE ProcessFrom(_, _, _, _, _, _, _)
\* the loop of lines 202-213 leaving at the first block that has no
\* workspace to go to
ProcessFrom_StopsWithoutWorkspace(c, hist, lg, t, k, ws, now) ==
  IF k > Len(c.codeBlocks) THEN ShowResponse(c, hist, lg, t)
  ELSE
    LET block     == c.codeBlocks[k]
        extension == _getFileExtension(block.language)
        lg1       == Append(lg, Effect(t, "createFile", [block |-> k, workspace |-> ws]))
    IN  IF ws = "undefined"
          THEN ShowResponse(c, hist, showErrorMessage(lg1, t, NoteNoWorkspace), t)
        ELSE IF ws = "empty"
          THEN ShowResponse(c, hist, CreateFileCatch(lg1, t, ErrUndefinedUri), t)
        ELSE Run([c EXCEPT !.pc = "awaitWriteFile", !.idx = k,
                           !.fileName = FileNameFor(block.code, extension, now)],
                 hist, lg1, FALSE)

\* _processResponseForFiles from block k on (lines 202-215), each block
\* through _createFile up to its first await (lines 259-289), and, after
\* the last block, the rest of _handleMessage.  ws is what
\* vscode.workspace.workspaceFolders holds during the run and now is what
\* Date.now() returns.
ProcessFrom(c, hist, lg, t, k, ws, now) ==
  IF k > Len(c.codeBlocks) THEN ShowResponse(c, hist, lg, t)
  ELSE
    LET block     == c.codeBlocks[k]
        extension == _getFileExtension(block.language)
        lg1       == Append(lg, Effect(t, "createFile", [block |-> k, workspace |-> ws]))
    IN  IF ws = "undefined"
          THEN ProcessFrom(c, hist, showErrorMessage(lg1, t, NoteNoWorkspace),
                           t, k + 1, ws, now)
        ELSE IF ws = "empty"
          THEN ProcessFrom(c, hist, CreateFileCatch(lg1, t, ErrUndefinedUri),
                           t, k + 1, ws, now)
        ELSE Run([c EXCEPT !.pc = "awaitWriteFile", !.idx = k,
                           !.fileName = FileNameFor(block.code, extension, now)],
                 hist, lg1, FALSE)

\* line 109
AllowEditing(cfg) == cfg.allowEditing \/ TRUE

\* lines 138-151 with the typing indicator hidden before the history grows
OnResponse_HidesFirst(c, hist, lg, t, response, ws, now) ==
  LET hist1 == Append(hist, Msg("assistant", response))
      lg1   == _safePostMessage(lg, t, SetTypingIndicator(FALSE))
      lg2   == PushEffect(lg1, t, Msg("assistant", response))
      c1    == [c EXCEPT !.response = response]
  IN  IF c.allowEditing
        THEN ProcessFrom([c1 EXCEPT !.codeBlocks = _extractCodeBlocks(response)],
                         hist1, lg2, t, 1, ws, now)
        ELSE ShowResponse(c1, hist1, lg2, t)

\* lines 138-151: the promise of _callDeepSeekAPI has resolved
OnResponse(c, hist, lg, t, response, ws, now) ==
  LET hist1 == Append(hist, Msg("assistant", response))
      lg1   == PushEffect(lg, t, Msg("assistant", response))
      lg2   == _safePostMessage(lg1, t, SetTypingIndicator(FALSE))
      c1    == [c EXCEPT !.response = response]
  IN  IF c.allowEditing
        THEN ProcessFrom([c1 EXCEPT !.codeBlocks = _extractCodeBlocks(response)],
                         hist1, lg2, t, 1, ws, now)
        ELSE ShowResponse(c1, hist1, lg2, t)

\* A fresh record for invocation t of _handleMessage: its position, its
\* arguments and locals, and three notes for the properties: the history it
\* found (hist0), what the transport delivered for its request (delivered,
\* <<>> until then) and the path it returned on (outcome).
NewCall(t, message, model, cfg, hist) ==
  [id |-> t, pc |-> "start", message |-> message, model |-> model, cfg |-> cfg,
   allowEditing |-> AllowEditing(cfg), response |-> <<>>, codeBlocks |-> <<>>,
   idx |-> 0, createdFiles |-> <<>>, fileName |-> <<>>,
   hist0 |-> hist, delivered |-> <<>>, outcome |-> "pending"]

\* _handleMessage without the test of line 111
MissingKey_Untested(apiKey) == FALSE

\* line 111: !apiKey
MissingKey(apiKey) == apiKey = <<>>

\* lines 97-136 with the typing indicator shown before the key is tested
Begin_TypingFirst(c, hist, lg, t) ==
  LET hist1 == Append(hist, Msg("user", c.message))
      lg0   == PushEffect(lg, t, Msg("user", c.message))
      lg1   == _safePostMessage(lg0, t, SetTypingIndicator(TRUE))
      endpoint == IF c.cfg.endpoint = "" THEN DefaultEndpoint ELSE c.cfg.endpoint
  IN  IF MissingKey(c.cfg.apiKey)
        THEN Finally(Run([c EXCEPT !.pc = "done", !.outcome = "nokey"], hist1,
                         IdleEffect(_safePostMessage(lg1, t, AddMessage(TextNoApiKey, FALSE)), t),
                         TRUE), t)
      ELSE
        LET lg2 == lg1
        IN  IF RequestThrows(endpoint, c.cfg.apiKey)
              THEN Catch(c, hist1, lg2, t, InvalidEndpoint(endpoint))
              ELSE Run([c EXCEPT !.pc = "awaitApi"], hist1,
                       Append(lg2, Effect(t, "request",
                                          [endpoint |-> endpoint, model |-> c.model,
                                           messages |-> hist1])),
                       FALSE)

\* lines 97-136 with the request built from the history as it was before
\* the user's message was appended
Begin_RequestBeforePush(c, hist, lg, t) ==
  LET hist1 == Append(hist, Msg("user", c.message))
      lg1   == PushEffect(lg, t, Msg("user", c.message))
      endpoint == IF c.cfg.endpoint = "" THEN DefaultEndpoint ELSE c.cfg.endpoint
  IN  IF MissingKey(c.cfg.apiKey)
        THEN Finally(Run([c EXCEPT !.pc = "done", !.outcome = "nokey"], hist1,
                         IdleEffect(_safePostMessage(lg1, t, AddMessage(TextNoApiKey, FALSE)), t),
                         TRUE), t)
      ELSE
        LET lg2 == _safePostMessage(lg1, t, SetTypingIndicator(TRUE))
        IN  IF RequestThrows(endpoint, c.cfg.apiKey)
              THEN Catch(c, hist1, lg2, t, InvalidEndpoint(endpoint))
              ELSE Run([c EXCEPT !.pc = "awaitApi"], hist1,
                       Append(lg2, Effect(t, "request",
                                          [endpoint |-> endpoint, model |-> c.model,
                                           messages |-> hist])),
                       FALSE)

\* lines 97-136: from the guard to the await of _callDeepSeekAPI
Begin(c, hist, lg, t) ==
  LET hist1 == Append(hist, Msg("user", c.message))
      lg1   == PushEffect(lg, t, Msg("user", c.message))
      endpoint == IF c.cfg.endpoint = "" THEN DefaultEndpoint ELSE c.cfg.endpoint
  IN  IF MissingKey(c.cfg.apiKey)
        THEN Finally(Run([c EXCEPT !.pc = "done", !.outcome = "nokey"], hist1,
                         IdleEffect(_safePostMessage(lg1, t, AddMessage(TextNoApiKey, FALSE)), t),
                         TRUE), t)
      ELSE
        LET lg2 == _safePostMessage(lg1, t, SetTypingIndicator(TRUE))
        IN  IF RequestThrows(endpoint, c.cfg.apiKey)
              THEN Catch(c, hist1, lg2, t, InvalidEndpoint(endpoint))
              ELSE Run([c EXCEPT !.pc = "awaitApi"], hist1,
                       Append(lg2, Effect(t, "request",
                                          [endpoint |-> endpoint, model |-> c.model,
                                           messages |-> hist1])),
                       FALSE)

\* ------------------------------------------------------------------------
\* Actions
\* ------------------------------------------------------------------------

\* the positions in calls of the invocations that have not returned
Active == {k \in 1..Len(calls) : calls[k].pc # "done"}

\* the variables after a run r of the invocation at position k of calls
Commit(r, k) ==
  /\ calls' = [calls EXCEPT ![k] = r.c]
  /\ conversationHistory' = r.hist
  /\ log' = r.log
  /\ isProcessing' = IF r.idle THEN FALSE ELSE isProcessing

\* resolveWebviewView (lines 29-57): the view is attached, the handler of
\* the webview's messages is registered
ResolveWebviewView ==
  /\ ~view
  /\ view' = TRUE
  /\ dropped' = FALSE
  /\ UNCHANGED probe
  /\ UNCHANGED <<conversationHistory, isProcessing, selectedModel, calls,
                 turnCount, clock, log, replay>>

\* lines 93-95 keeping the ignored message for later
SendMessageDropped_Keeps ==
  /\ view
  /\ Busy
  /\ dropped' = TRUE
  /\ UNCHANGED probe
  /\ \E message \in Messages :
       conversationHistory' = Append(conversationHistory, Msg("user", message))
  /\ UNCHANGED <<view, isProcessing, selectedModel, calls,
                 turnCount, clock, log, replay>>

\* a sendMessage event that _handleMessage ignores (lines 93-95)
SendMessageDropped ==
  /\ view
  /\ Busy
  /\ dropped' = TRUE
  /\ UNCHANGED probe
  /\ UNCHANGED <<view, conversationHistory, isProcessing, selectedModel, calls,
                 turnCount, clock, log, replay>>

\* a sendMessage event that _handleMessage accepts (lines 97-136)
SendMessageAccepted ==
  /\ view
  /\ ~Busy
  /\ turnCount < MaxTurns
  /\ \E message \in Messages, model \in Models, cfg \in Configs :
       LET t == turnCount + 1
           r == Begin(NewCall(t, message, model, cfg, conversationHistory),
                      conversationHistory, <<>>, t)
       IN  /\ selectedModel' = model
           /\ turnCount' = t
           /\ calls' = Append(SelectSeq(calls, LAMBDA c : c.pc # "done"), r.c)
           /\ conversationHistory' = r.hist
           /\ log' = r.log
           /\ isProcessing' = ~r.idle
  /\ dropped' = FALSE
  /\ UNCHANGED probe
  /\ replay' = <<>>
  /\ UNCHANGED <<view, clock>>

\* the value Date.now() returns to a run that ends in state r: time does
\* not go back, and only a run that reaches line 271 reads the clock
ReadsClock(r) == r.c.pc = "awaitWriteFile"

\* the 'end' or 'error' event of the request of the invocation at k (lines
\* 340-368), then lines 138-170 up to the next await
ApiSettles(k) ==
  /\ calls[k].pc = "awaitApi"
  /\ \E outcome \in ApiOutcomes, ws \in WorkspaceStates, now \in {clock, clock + 1} :
       LET s == Settle(outcome)
           c == [calls[k] EXCEPT !.delivered = <<outcome>>]
           r == IF s.ok
                  THEN OnResponse(c, conversationHistory, log, c.id, s.val, ws, now)
                  ELSE Catch(c, conversationHistory, log, c.id, s.val)
       IN  /\ (now # clock => ReadsClock(r))
           /\ clock' = now
           /\ Commit(r, k)
  /\ dropped' = FALSE
  /\ UNCHANGED probe
  /\ UNCHANGED <<view, selectedModel, turnCount, replay>>

\* _createFile returns for block idx of the invocation at k (line 295 with
\* the name, lines 297-300 with null after the error was shown); the loop
\* of _processResponseForFiles goes on with the next block
CreateFileReturns(k, ok, errorMessage) ==
  \E ws \in WorkspaceStates, now \in {clock, clock + 1} :
    LET c  == calls[k]
        c1 == IF ok THEN [c EXCEPT !.createdFiles = Append(@, c.fileName)] ELSE c
        lg == IF ok THEN Append(log, Effect(c.id, "shown", [block |-> c.idx]))
                    ELSE CreateFileCatch(log, c.id, errorMessage)
        r  == ProcessFrom(c1, conversationHistory, lg, c.id, c.idx + 1, ws, now)
    IN  /\ (now # clock => ReadsClock(r))
        /\ clock' = now
        /\ Commit(r, k)

\* fs.writeFile settles (line 289)
WriteFileSettles(k) ==
  /\ calls[k].pc = "awaitWriteFile"
  /\ \/ /\ calls' = [calls EXCEPT ![k].pc = "awaitOpen"]
        /\ log' = Append(log, Effect(calls[k].id, "written",
                                     [block |-> calls[k].idx,
                                      name |-> calls[k].fileName,
                                      content |-> calls[k].codeBlocks[calls[k].idx].code]))
        /\ UNCHANGED <<conversationHistory, isProcessing, clock>>
     \/ CreateFileReturns(k, FALSE, ErrWrite)
  /\ dropped' = FALSE
  /\ UNCHANGED probe
  /\ UNCHANGED <<view, selectedModel, turnCount, replay>>

\* vscode.workspace.openTextDocument settles (line 292)
OpenSettles(k) ==
  /\ calls[k].pc = "awaitOpen"
  /\ \/ /\ calls' = [calls EXCEPT ![k].pc = "awaitShow"]
        /\ log' = Append(log, Effect(calls[k].id, "opened", [block |-> calls[k].idx]))
        /\ UNCHANGED <<conversationHistory, isProcessing, clock>>
     \/ CreateFileReturns(k, FALSE, ErrOpen)
  /\ dropped' = FALSE
  /\ UNCHANGED probe
  /\ UNCHANGED <<view, selectedModel, turnCount, replay>>

\* vscode.window.showTextDocument settles (lines 293-295)
ShowSettles(k) ==
  /\ calls[k].pc = "awaitShow"
  /\ \/ CreateFileReturns(k, TRUE, <<>>)
     \/ CreateFileReturns(k, FALSE, ErrOpen)
  /\ dropped' = FALSE
  /\ UNCHANGED probe
  /\ UNCHANGED <<view, selectedModel, turnCount, replay>>

RECURSIVE Replay_AllFromUser(_, _)
\* _restoreConversation without the test of the role
Replay_AllFromUser(lg, hist) ==
  IF hist = <<>> THEN lg
  ELSE Replay_AllFromUser(_safePostMessage(lg, 0, AddMessage(hist[1].content, TRUE)),
                          Tail(hist))

RECURSIVE Replay(_, _)
\* _restoreConversation (lines 71-84): one addMessage for each entry
Replay(lg, hist) ==
  IF hist = <<>> THEN lg
  ELSE Replay(_safePostMessage(lg, 0, AddMessage(hist[1].content, hist[1].role = "user")),
              Tail(hist))

\* the webview's message handler, case 'webviewReady' (lines 51-54)
WebviewReady ==
  /\ view
  /\ replay' = <<[during |-> {calls[k].id : k \in Active},
                  posts  |-> _safePostMessage(Replay(<<>>, conversationHistory),
                                              0, SetModels)]>>
  /\ dropped' = FALSE
  /\ UNCHANGED probe
  /\ UNCHANGED <<view, conversationHistory, isProcessing, selectedModel, calls,
                 turnCount, clock, log>>

\* the steps that the transport and the host complete on their own
Progress(k) ==
  ApiSettles(k) \/ WriteFileSettles(k) \/ OpenSettles(k) \/ ShowSettles(k)

Next ==
  \/ ResolveWebviewView
  \/ SendMessageDropped
  \/ SendMessageAccepted
  \/ WebviewReady
  \/ \E k \in Active : ApiSettles(k)
  \/ \E k \in Active : WriteFileSettles(k)
  \/ \E k \in Active : OpenSettles(k)
  \/ \E k \in Active : ShowSettles(k)

Spec == Init /\ [][Next]_vars

\* every request settles and every file operation completes
Fairness == WF_vars(\E k \in Active : Progress(k))

LiveSpec == Init /\ [][Next]_vars /\ Fairness

\* ------------------------------------------------------------------------
\* The helpers of the file pipeline, each called on its own
\* ------------------------------------------------------------------------

\* String.prototype.toUpperCase, one character
UpperChar(c) ==
  IF \E k \in 1..26 : LowerLetters[k] = c
    THEN UpperLetters[CHOOSE k \in 1..26 : LowerLetters[k] = c]
    ELSE c

\* a tag in capitals
toUpperCase(s) == [k \in 1..Len(s) |-> UpperChar(s[k])]

\* a tag with a capital first letter
Capitalized(s) == [k \in 1..Len(s) |-> IF k = 1 THEN UpperChar(s[k]) ELSE s[k]]

\* the language identifiers of extensionMap
KnownTags == {extensionMap[k].key : k \in 1..Len(extensionMap)}

\* language tags a fence may carry (match[1] || ''): none, the known
\* identifiers in three spellings, and words that are no known identifier
Tags ==
  KnownTags
  \cup {toUpperCase(t) : t \in KnownTags}
  \cup {Capitalized(t) : t \in KnownTags}
  \cup InheritedKeys
  \cup {<<>>, <<"f","o","o">>, <<"t","x","t">>, <<"p","y">>, <<"J","S">>,
        <<"C","o","n","s","t","r","u","c","t","o","r">>}

\* the longest text given to _extractCodeBlocks, in tokens
MaxTokens == 7

\* the pieces the texts are made of: a fence, a line break, a letter
Tokens == {Fence, <<"\n">>, <<"a">>}

RECURSIVE TokenTexts(_)
\* the texts of at most n tokens
TokenTexts(n) ==
  IF n = 0 THEN {<<>>}
  ELSE LET shorter == TokenTexts(n - 1)
       IN  shorter \cup {t \o tok : t \in shorter, tok \in Tokens}

Texts == TokenTexts(MaxTokens)

\* the longest title of an HTML block, in characters
MaxTitleLen == 3

TitleChars == {"M", "y", " ", "-"}

RECURSIVE TitlesUpTo(_)
\* the titles of at most n characters
TitlesUpTo(n) ==
  IF n = 0 THEN {<<>>}
  ELSE LET shorter == TitlesUpTo(n - 1)
       IN  shorter \cup {Append(t, ch) : t \in shorter, ch \in TitleChars}

\* '<p>'
BodyTag == <<"<","p",">">>

\* '<TITLE>'
TitleOpenCaps == <<"<","T","I","T","L","E",">">>

\* the contents of the blocks that are named: a title in lower-case or
\* upper-case tags after some markup, or no title
Contents ==
  {BodyTag \o TitleOpen \o t \o TitleClose : t \in TitlesUpTo(MaxTitleLen)}
  \cup {TitleOpenCaps \o t \o TitleClose : t \in TitlesUpTo(MaxTitleLen)}
  \cup {BodyTag, TitleOpen \o <<"M","y">>}

\* the blocks that are named: [language, code] as _extractCodeBlocks
\* returns them, and the value of Date.now()
NamedBlocks ==
  [language : {HtmlExt, toUpperCase(HtmlExt), <<>>}, code : Contents, now : {7, 12}]

\* the calls taken on their own
Calls ==
  {Call("_getFileExtension", t) : t \in Tags}
  \cup {Call("_extractCodeBlocks", t) : t \in Texts}
  \cup {Call("_createFile", b) : b \in NamedBlocks}

HelperInit == SessionInit /\ probe \in Calls

\* the call of probe returns out
Returns(out) ==
  /\ ~probe.done
  /\ probe' = [probe EXCEPT !.done = TRUE, !.out = out]
  /\ UNCHANGED <<view, conversationHistory, isProcessing, selectedModel, calls,
                 turnCount, clock, log, dropped, replay>>

\* line 206
GetFileExtension ==
  /\ probe.fn = "_getFileExtension"
  /\ Returns(_getFileExtension(probe.arg))

\* line 195
ExtractCodeBlocks ==
  /\ probe.fn = "_extractCodeBlocks"
  /\ Returns(_extractCodeBlocks(probe.arg))

\* lines 203-209 and 270-284: the name _createFile gives the file of a block
NameBlock ==
  /\ probe.fn = "_createFile"
  /\ Returns(FileNameFor(probe.arg.code, _getFileExtension(probe.arg.language),
                         probe.arg.now))

HelperNext == GetFileExtension \/ ExtractCodeBlocks \/ NameBlock

HelperSpec == HelperInit /\ [][HelperNext]_vars

\* ------------------------------------------------------------------------
\* Properties
\* ------------------------------------------------------------------------

\* the effects of invocation t, in order
TurnLog(t) == SelectSeq(log, LAMBDA e : e.turn = t)

\* the effects of invocation t of the given kind, in order
TurnEffects(t, kind) == SelectSeq(log, LAMBDA e : e.turn = t /\ e.kind = kind)

\* the messages invocation t has posted to the webview, in order
TurnPosts(t) == TurnEffects(t, "post")

IsAddMessage(e) == e.kind = "post" /\ e.val.type = "addMessage"

IsTyping(e) == e.kind = "post" /\ e.val.type = "setTypingIndicator"

\* this step handles a sendMessage event: it is accepted, or it is ignored
\* (a second ignored event in a row leaves the state as it is)
SendMessageStep == turnCount' # turnCount \/ (dropped' /\ ~dropped)

\* C1: single-flight.  Under every interleaving of sendMessage events,
\* webviewReady events, network callbacks and file-operation completions,
\* at most one invocation of _handleMessage is between its guard and its
\* return, so at most one completion request is outstanding, and
\* _isProcessing is set exactly while there is one.
C1_SingleFlight ==
  /\ Cardinality(Active) <= 1
  /\ Cardinality({k \in Active : calls[k].pc = "awaitApi"}) <= 1
  /\ isProcessing <=> Active # {}

\* a sendMessage event and a webviewReady event have arrived while a
\* request is outstanding
C1_Witness ==
  /\ \E k \in Active : calls[k].pc = "awaitApi"
  /\ dropped
  /\ replay # <<>>

\* C2: a sendMessage event handled while the session is AwaitingResponse
\* changes nothing: not the history, not the session state, not the
\* invocation in flight or its request, and nothing is posted to the webview
\* or kept for later.
C2_DroppedSilently ==
  [][(isProcessing /\ SendMessageStep) =>
       UNCHANGED <<conversationHistory, isProcessing, selectedModel, calls,
                   turnCount, clock, log, replay>>]_vars

\* a sendMessage event was handled while a request was outstanding
C2_Witness ==
  /\ dropped
  /\ isProcessing
  /\ \E k \in Active : calls[k].pc = "awaitApi"
  /\ Len(conversationHistory) = 1

\* C3: every accepted turn returns the session to Idle, whichever way it
\* ends (no API key, a completion with or without file writes, an HTTP
\* error status, an invalid body, a transport error, a request that cannot
\* be built, a failed file operation), provided the transport settles every
\* request and the host completes every file operation; and whenever the
\* session is Idle the next sendMessage event is accepted.
C3_ReturnsToIdle ==
  /\ isProcessing ~> (~isProcessing /\ Active = {})
  /\ []((view /\ ~isProcessing /\ turnCount < MaxTurns) => ENABLED SendMessageAccepted)

\* a second turn was accepted after the first returned, and has itself
\* returned to Idle after a failed file operation
C3_Witness ==
  /\ turnCount = 2
  /\ ~isProcessing
  /\ Active = {}
  /\ \E k \in 1..Len(calls) : calls[k].outcome = "ok" /\ TurnEffects(calls[k].id, "notify") # <<>>

\* the addMessage events invocation t has posted, in order
TurnAdds(t) == SelectSeq(TurnPosts(t), IsAddMessage)

\* what a post of message m by invocation t leaves in the log
Posted(t, m) == Effect(t, "post", m)

\* The transport delivered no completion for the request of invocation c:
\* an 'error' event, a status other than 200, or a 200 whose body is not
\* JSON, has no choice or has a first choice without a message.
NoCompletionDelivered(c) ==
  /\ c.delivered # <<>>
  /\ LET o == c.delivered[1]
     IN  \/ o.neterr
         \/ o.status # 200
         \/ o.body.parsed = <<>>
         \/ o.body.parsed[1].choices = <<>>
         \/ o.body.parsed[1].choices[1] = <<>>
         \/ o.body.parsed[1].choices[1][1].message = <<>>

\* invocation c fails before a completion is obtained: by its settings (no
\* key, a key no header can carry, an endpoint that is no URL) or by what
\* the transport delivered
FailsBeforeCompletion(c) ==
  \/ c.cfg.apiKey = <<>>
  \/ c.cfg.apiKey = KeyBadHeader
  \/ c.cfg.endpoint = MalformedEndpoint
  \/ NoCompletionDelivered(c)

\* C4: when an accepted turn has failed before a completion was obtained,
\* the history is the history the turn found plus the user's message, the
\* turn has appended nothing else, and it has posted exactly one addMessage:
\* assistant-role, with an error description as its text.
C4_FailedTurn ==
  \A k \in 1..Len(calls) :
    LET c == calls[k]
    IN  (c.pc = "done" /\ FailsBeforeCompletion(c)) =>
          /\ conversationHistory = Append(c.hist0, Msg("user", c.message))
          /\ TurnEffects(c.id, "push") = <<Effect(c.id, "push", Msg("user", c.message))>>
          /\ Len(TurnAdds(c.id)) = 1
          /\ ~TurnAdds(c.id)[1].val.value.isUser
          /\ StartsWithAt(TurnAdds(c.id)[1].val.value.text, 1, ErrorPrefix)
          /\ Len(TurnAdds(c.id)[1].val.value.text) > Len(ErrorPrefix)

\* a second turn, after a completed one, has ended on a 401 response
C4_Witness ==
  \E k \in 1..Len(calls) :
    /\ calls[k].pc = "done"
    /\ calls[k].delivered # <<>>
    /\ calls[k].delivered[1].status = 401
    /\ Len(calls[k].hist0) = 2

\* C5 as stated: every accepted turn first appends the user message to the
\* history and then posts 'typing indicator on', before anything else it
\* does - the error message for a missing API key included.
C5_TypingOnFirst ==
  \A k \in 1..Len(calls) :
    LET c  == calls[k]
        tl == TurnLog(c.id)
    IN  /\ Len(tl) >= 2
        /\ tl[1] = Effect(c.id, "push", Msg("user", c.message))
        /\ tl[2] = Posted(c.id, SetTypingIndicator(TRUE))

\* C5 as amended: every accepted turn first appends the user message to the
\* history.  With an API key set, 'typing indicator on' is posted next,
\* before any other effect of the turn; without one, the error message is
\* posted next and the turn posts no typing-indicator event at all.
C5_TypingOnWithKey ==
  \A k \in 1..Len(calls) :
    LET c  == calls[k]
        tl == TurnLog(c.id)
    IN  /\ Len(tl) >= 2
        /\ tl[1] = Effect(c.id, "push", Msg("user", c.message))
        /\ conversationHistory[Len(c.hist0) + 1] = Msg("user", c.message)
        /\ IF c.cfg.apiKey = <<>>
             THEN /\ tl[2] = Posted(c.id, AddMessage(TextNoApiKey, FALSE))
                  /\ SelectSeq(tl, IsTyping) = <<>>
             ELSE tl[2] = Posted(c.id, SetTypingIndicator(TRUE))

\* a turn without an API key has been accepted after an earlier turn that
\* had one
C5_Witness ==
  \E k \in 1..Len(calls) :
    /\ calls[k].cfg.apiKey = <<>>
    /\ Len(calls[k].hist0) = 2
    /\ calls[k].pc = "done"

\* the transport delivered a completion for the request of invocation c
CompletionDelivered(c) == c.delivered # <<>> /\ ~NoCompletionDelivered(c)

\* the assistant text of the completion delivered to invocation c
DeliveredText(c) == c.delivered[1].body.parsed[1].choices[1][1].message[1].content

FileKinds == {"createFile", "written", "opened", "shown", "notify"}

\* the block that _createFile is working on at position p of a turn's log:
\* the block of the last call of _createFile up to p, 0 before the first
BlockAt(tl, p) ==
  LET ps == {q \in 1..p : tl[q].kind = "createFile"}
  IN  IF ps = {} THEN 0 ELSE tl[Greatest(ps)].val.block

\* the positions of the effects of the given kind made while _createFile
\* was working on block b
BlockEffects(tl, b, kind) ==
  {p \in 1..Len(tl) : tl[p].kind = kind /\ BlockAt(tl, p) = b}

\* the write of block b succeeded: the file was written, opened and shown,
\* and _createFile returned its name
WriteSucceeded(tl, b) == BlockEffects(tl, b, "shown") # {}

\* the name under which block b was written
WrittenName(tl, b) == tl[CHOOSE p \in BlockEffects(tl, b, "written") : TRUE].val.name

RECURSIVE SucceededNames(_, _, _)
\* the names of the blocks b..n whose write succeeded, in block order
SucceededNames(tl, b, n) ==
  IF b > n THEN <<>>
  ELSE (IF WriteSucceeded(tl, b) THEN <<WrittenName(tl, b)>> ELSE <<>>)
       \o SucceededNames(tl, b + 1, n)

\* C6 as stated: a turn whose settings have allowEditing = false runs no
\* file materialization (no _createFile call, no file written), and the
\* assistant message it posts is the response text without a prefix.
C6_EditingDisabled ==
  \A k \in 1..Len(calls) :
    LET c == calls[k]
    IN  ~c.cfg.allowEditing =>
          /\ \A p \in 1..Len(TurnLog(c.id)) : TurnLog(c.id)[p].kind \notin FileKinds
          /\ (c.pc = "done" /\ CompletionDelivered(c)) =>
                TurnAdds(c.id) = <<Posted(c.id, AddMessage(DeliveredText(c), FALSE))>>

\* C7: when a turn whose request got a completion has returned, its effects
\* are, in this order: user message appended, typing indicator on, the
\* request, the assistant message appended, typing indicator off, the file
\* operations, exactly one assistant-role addMessage, and only then
\* _isProcessing = false.  The text of the addMessage is the response, with
\* the 'Created n file(s)' prefix iff the write of at least one block
\* succeeded, n being the number of blocks whose write succeeded and the
\* names listed being theirs.  Until the turn returns the session is not Idle.
C7_SuccessOrder ==
  \A k \in 1..Len(calls) :
    LET c  == calls[k]
        tl == TurnLog(c.id)
        m  == Len(tl)
    IN  /\ c.pc # "done" => (isProcessing /\ TurnEffects(c.id, "idle") = <<>>)
        /\ (c.pc = "done" /\ CompletionDelivered(c)) =>
             LET resp  == DeliveredText(c)
                 names == SucceededNames(tl, 1, Len(_extractCodeBlocks(resp)))
                 text  == IF Len(names) > 0 THEN CreatedText(names, resp) ELSE resp
             IN  /\ m >= 7
                 /\ tl[1] = Effect(c.id, "push", Msg("user", c.message))
                 /\ tl[2] = Posted(c.id, SetTypingIndicator(TRUE))
                 /\ tl[3].kind = "request"
                 /\ tl[4] = Effect(c.id, "push", Msg("assistant", resp))
                 /\ tl[5] = Posted(c.id, SetTypingIndicator(FALSE))
                 /\ \A p \in 6..(m - 2) : tl[p].kind \in FileKinds
                 /\ tl[m - 1] = Posted(c.id, AddMessage(text, FALSE))
                 /\ tl[m] = Effect(c.id, "idle", [processing |-> FALSE])
                 /\ conversationHistory =
                      c.hist0 \o <<Msg("user", c.message), Msg("assistant", resp)>>
                 /\ ~isProcessing

\* a turn has returned after a response with two blocks of which exactly
\* one was written successfully
C7_Witness ==
  \E k \in 1..Len(calls) :
    /\ calls[k].pc = "done"
    /\ CompletionDelivered(calls[k])
    /\ Len(TurnEffects(calls[k].id, "createFile")) = 2
    /\ Len(TurnEffects(calls[k].id, "shown")) = 1
    /\ ~isProcessing

\* C8: a turn accepted without an API key posts the 'Please set your
\* DeepSeek API key' message as an assistant-role addMessage and nothing
\* else, issues no request, appends nothing but the user message to the
\* history, and has returned to Idle when its handler returns.
C8_MissingKey ==
  \A k \in 1..Len(calls) :
    LET c == calls[k]
    IN  c.cfg.apiKey = <<>> =>
          /\ c.pc = "done"
          /\ ~isProcessing
          /\ TurnEffects(c.id, "request") = <<>>
          /\ TurnPosts(c.id) = <<Posted(c.id, AddMessage(TextNoApiKey, FALSE))>>
          /\ TurnEffects(c.id, "push") = <<Effect(c.id, "push", Msg("user", c.message))>>
          /\ conversationHistory = Append(c.hist0, Msg("user", c.message))

\* the first turn of a session was accepted without an API key, and a
\* webviewReady event followed it
C8_Witness ==
  \E k \in 1..Len(calls) :
    /\ calls[k].cfg.apiKey = <<>>
    /\ calls[k].hist0 = <<>>
    /\ replay # <<>>
    /\ Len(replay[1].posts) = 2

\* C9: when a turn whose request got a completion has returned, _createFile
\* has been called once for each extracted block, in extraction order, each
\* call after the one before has returned; the list _processResponseForFiles
\* returned holds exactly the names of the blocks whose write succeeded, in
\* extraction order; and each block whose write failed has one error
\* notification and no entry, each block whose write succeeded none.
C9_WriteAll ==
  \A k \in 1..Len(calls) :
    LET c  == calls[k]
        tl == TurnLog(c.id)
    IN  (c.pc = "done" /\ CompletionDelivered(c) /\ c.allowEditing) =>
          LET n == Len(_extractCodeBlocks(DeliveredText(c)))
              attempts == TurnEffects(c.id, "createFile")
          IN  /\ Len(attempts) = n
              /\ \A b \in 1..n : attempts[b].val.block = b
              /\ \A p \in 1..Len(tl) :
                    (tl[p].kind \in {"written", "opened", "shown"}) =>
                       tl[p].val.block = BlockAt(tl, p)
              /\ \A b \in 1..n :
                    /\ Cardinality(BlockEffects(tl, b, "written")) <= 1
                    /\ Cardinality(BlockEffects(tl, b, "notify")) =
                         (IF WriteSucceeded(tl, b) THEN 0 ELSE 1)
              /\ c.createdFiles = SucceededNames(tl, 1, n)

\* a turn has returned after a response with two blocks: the write of the
\* first failed, the write of the second succeeded
C9_Witness ==
  \E k \in 1..Len(calls) :
    /\ calls[k].pc = "done"
    /\ CompletionDelivered(calls[k])
    /\ Len(TurnEffects(calls[k].id, "createFile")) = 2
    /\ ~WriteSucceeded(TurnLog(calls[k].id), 1)
    /\ WriteSucceeded(TurnLog(calls[k].id), 2)
    /\ Len(calls[k].createdFiles) = 1

\* C10 as stated: a block whose content fs.writeFile has written counts as
\* written even when opening or showing the document fails: no error is
\* notified for it and its name is in the turn's list of created files.
C10_OpenFireAndForget ==
  \A k \in 1..Len(calls) :
    LET c  == calls[k]
        tl == TurnLog(c.id)
    IN  c.pc = "done" =>
          \A p \in 1..Len(tl) :
            tl[p].kind = "written" =>
              /\ BlockEffects(tl, tl[p].val.block, "notify") = {}
              /\ \E q \in 1..Len(c.createdFiles) : c.createdFiles[q] = tl[p].val.name

\* C11 as stated: any two files the session has written under a default
\* name (generated_<Date.now()>.<extension>) have different names, two
\* blocks of one turn with the same extension included.
C11_UniqueDefaultNames ==
  \A p \in 1..Len(log) : \A q \in (p + 1)..Len(log) :
    (/\ log[p].kind = "written"
     /\ log[q].kind = "written"
     /\ StartsWithAt(log[p].val.name, 1, GeneratedPrefix)
     /\ StartsWithAt(log[q].val.name, 1, GeneratedPrefix))
      => log[p].val.name # log[q].val.name

\* C12: when a turn whose request got a completion has returned and no
\* call of _createFile in it found a workspace folder (the list undefined
\* or empty), no file was written, opened or shown, each block has one
\* error notification, the assistant message is in the history after the
\* user's, the only addMessage of the turn is the response without a
\* prefix, and the session is Idle.
C12_NoWorkspace ==
  \A k \in 1..Len(calls) :
    LET c  == calls[k]
        tl == TurnLog(c.id)
        attempts == TurnEffects(c.id, "createFile")
    IN  (/\ c.pc = "done"
         /\ CompletionDelivered(c)
         /\ \A a \in 1..Len(attempts) : attempts[a].val.workspace # "one") =>
          LET resp == DeliveredText(c)
              n    == Len(_extractCodeBlocks(resp))
          IN  /\ Len(attempts) = n
              /\ \A p \in 1..Len(tl) : tl[p].kind \notin {"written", "opened", "shown"}
              /\ \A b \in 1..n : Cardinality(BlockEffects(tl, b, "notify")) = 1
              /\ conversationHistory =
                   c.hist0 \o <<Msg("user", c.message), Msg("assistant", resp)>>
              /\ TurnAdds(c.id) = <<Posted(c.id, AddMessage(resp, FALSE))>>
              /\ tl[Len(tl)].kind = "idle"
              /\ ~isProcessing

\* a turn has returned after a response with two blocks, and the list of
\* workspace folders was empty at both
C12_Witness ==
  \E k \in 1..Len(calls) :
    /\ calls[k].pc = "done"
    /\ Len(TurnEffects(calls[k].id, "createFile")) = 2
    /\ \A a \in 1..2 : TurnEffects(calls[k].id, "createFile")[a].val.workspace = "empty"

\* the completion requests in a log, in order
Requests(lg) == SelectSeq(lg, LAMBDA e : e.kind = "request")

\* the 'Error: ...' addMessage events invocation t has posted
TurnErrors(t) ==
  SelectSeq(TurnAdds(t), LAMBDA e : StartsWithAt(e.val.value.text, 1, ErrorPrefix))

\* C13: no retries.  An accepted turn issues at most one completion
\* request; a request that has settled has one outcome, either the
\* assistant text appended to the history or one error message; and a
\* request is issued only by the step that accepts a sendMessage event.
C13_NoRetry ==
  /\ [](\A k \in 1..Len(calls) :
          LET c == calls[k]
          IN  /\ Len(TurnEffects(c.id, "request")) <= 1
              /\ (c.pc # "awaitApi" /\ TurnEffects(c.id, "request") # <<>>) =>
                   /\ Len(c.delivered) = 1
                   /\ Len(SelectSeq(TurnEffects(c.id, "push"),
                                    LAMBDA e : e.val.role = "assistant"))
                        + Len(TurnErrors(c.id)) = 1)
  /\ [][(Requests(log)' # <<>> /\ Requests(log)' # Requests(log)) =>
          (~isProcessing /\ turnCount' = turnCount + 1)]_vars

\* a turn's request has ended on a 503 response and the session is Idle
C13_Witness ==
  \E k \in 1..Len(calls) :
    /\ calls[k].pc = "done"
    /\ calls[k].delivered # <<>>
    /\ calls[k].delivered[1].status = 503
    /\ Len(Requests(log)) = 1
    /\ ~isProcessing

\* the number of user messages in a history
UserCount(hist) == Len(SelectSeq(hist, LAMBDA m : m.role = "user"))

\* the number of assistant messages in a history
AssistantCount(hist) == Len(SelectSeq(hist, LAMBDA m : m.role = "assistant"))

\* C14: the request of a turn carries the whole history as it stands when
\* the request is built: the history the turn found, in order, then the
\* turn's user message as the last element; it holds one user message for
\* each turn accepted so far, those of failed turns included, and it is the
\* history for as long as the request is outstanding.
C14_RequestHistory ==
  \A k \in 1..Len(calls) :
    LET c   == calls[k]
        rqs == TurnEffects(c.id, "request")
    IN  /\ (c.pc = "awaitApi") => Len(rqs) = 1
        /\ \A r \in 1..Len(rqs) :
             /\ rqs[r].val.messages = Append(c.hist0, Msg("user", c.message))
             /\ UserCount(rqs[r].val.messages) = c.id
             /\ (c.pc = "awaitApi") => rqs[r].val.messages = conversationHistory

\* the request of a second turn is outstanding, the first turn having
\* failed: the request carries both user messages and no assistant message
C14_Witness ==
  \E k \in 1..Len(calls) :
    /\ calls[k].pc = "awaitApi"
    /\ calls[k].id = 2
    /\ Len(calls[k].hist0) = 1
    /\ Len(Requests(log)[1].val.messages) = 2

\* s is an initial segment of t
IsPrefix(s, t) == Len(s) <= Len(t) /\ SubSeq(t, 1, Len(s)) = s

\* C15: when the n turns accepted so far have all returned, the history
\* holds n user messages and at most n assistant messages, each assistant
\* message right after a user message; the history of a turn that has
\* returned is the history it found, its user message and, when it got a
\* completion, the assistant message; and no step reorders, changes or
\* removes an entry of the history.
C15_HistoryShape ==
  /\ [](Active = {} =>
          /\ UserCount(conversationHistory) = turnCount
          /\ AssistantCount(conversationHistory) <= turnCount
          /\ \A i \in 1..Len(conversationHistory) :
               conversationHistory[i].role = "assistant" =>
                 (i > 1 /\ conversationHistory[i - 1].role = "user")
          /\ \A k \in 1..Len(calls) :
               conversationHistory =
                 Append(calls[k].hist0, Msg("user", calls[k].message))
                 \o (IF calls[k].outcome = "ok"
                       THEN <<Msg("assistant", calls[k].response)>> ELSE <<>>))
  /\ [][IsPrefix(conversationHistory, conversationHistory')]_vars

\* two turns have returned, the first with an error and the second with a
\* completion: two user messages, one assistant message
C15_Witness ==
  /\ Active = {}
  /\ turnCount = 2
  /\ UserCount(conversationHistory) = 2
  /\ AssistantCount(conversationHistory) = 1
  /\ conversationHistory[3].role = "assistant"

\* the result classes of the completion call
ResultClass(class, val) == [class |-> class, val |-> val]

\* a parsed body has a non-empty choices list
HasChoices(body) ==
  /\ body.parsed # <<>>
  /\ body.parsed[1].choices # <<>>
  /\ body.parsed[1].choices[1] # <<>>

\* 'API error: <status> - <detail>'
ApiErrorText(status, detail) ==
  ErrApiPrefix \o DecChars(status) \o ErrApiSep \o detail

\* a parsed body has a nested error message
HasErrorMessage(body) ==
  /\ body.parsed # <<>>
  /\ body.parsed[1].error # <<>>
  /\ body.parsed[1].error[1].message # <<>>

\* what a turn that has returned shows of the result of its request: the
\* class, and the assistant text or the error message
ShownResult(c) ==
  IF c.outcome = "ok" THEN ResultClass("content", c.response)
  ELSE LET text == TurnAdds(c.id)[1].val.value.text
           msg  == SubSeq(text, Len(ErrorPrefix) + 1, Len(text))
       IN  IF msg \in {ErrParse, ErrNoResponse} THEN ResultClass("InvalidResponse", <<>>)
           ELSE IF msg = ErrAuth THEN ResultClass("AuthenticationFailed", <<>>)
           ELSE IF StartsWithAt(msg, 1, ErrApiPrefix) THEN ResultClass("ApiError", msg)
           ELSE ResultClass("Transport", msg)

\* C16 as stated: the result for each transport outcome.  A 200 with
\* parseable JSON and a non-empty choices list gives the content of the
\* first choice's message; a 200 with malformed JSON or empty or missing
\* choices gives InvalidResponse; 401 gives AuthenticationFailed; any other
\* status gives 'API error: <status> - <message>' with the nested error
\* message when there is one and the raw body otherwise; a transport error
\* gives the transport's own error.
C16_ResultClasses ==
  \A k \in 1..Len(calls) :
    LET c == calls[k]
    IN  (c.pc = "done" /\ c.delivered # <<>>) =>
          LET o == c.delivered[1]
          IN  IF o.neterr THEN ShownResult(c) = ResultClass("Transport", ErrTransport)
              ELSE IF o.status = 200 THEN
                IF HasChoices(o.body)
                  THEN /\ ShownResult(c).class = "content"
                       /\ o.body.parsed[1].choices[1][1].message # <<>> =>
                            ShownResult(c).val = DeliveredText(c)
                  ELSE ShownResult(c).class = "InvalidResponse"
              ELSE IF o.status = 401 THEN ShownResult(c).class = "AuthenticationFailed"
              ELSE ShownResult(c) =
                     ResultClass("ApiError",
                                 ApiErrorText(o.status,
                                              IF HasErrorMessage(o.body)
                                                THEN o.body.parsed[1].error[1].message[1]
                                                ELSE o.body.raw))

\* C16 as amended: as stated, except that a 200 whose first choice has no
\* message gives InvalidResponse, and that an empty nested error message
\* counts as none (the raw body is used).
C16_ResultClassesAmended ==
  \A k \in 1..Len(calls) :
    LET c == calls[k]
    IN  (c.pc = "done" /\ c.delivered # <<>>) =>
          LET o == c.delivered[1]
          IN  IF o.neterr THEN ShownResult(c) = ResultClass("Transport", ErrTransport)
              ELSE IF o.status = 200 THEN
                IF HasChoices(o.body) /\ o.body.parsed[1].choices[1][1].message # <<>>
                  THEN ShownResult(c) = ResultClass("content", DeliveredText(c))
                  ELSE ShownResult(c).class = "InvalidResponse"
              ELSE IF o.status = 401 THEN ShownResult(c).class = "AuthenticationFailed"
              ELSE ShownResult(c) =
                     ResultClass("ApiError",
                                 ApiErrorText(o.status,
                                              IF HasErrorMessage(o.body)
                                                   /\ o.body.parsed[1].error[1].message[1] # <<>>
                                                THEN o.body.parsed[1].error[1].message[1]
                                                ELSE o.body.raw))

\* a turn has returned after a 500 response whose body has a nested error
\* message, and the message is in the text shown
C16_Witness ==
  \E k \in 1..Len(calls) :
    /\ calls[k].pc = "done"
    /\ calls[k].delivered # <<>>
    /\ calls[k].delivered[1].status = 500
    /\ calls[k].delivered[1].body = BodyError
    /\ ShownResult(calls[k]) = ResultClass("ApiError", ApiErrorText(500, MsgSlow))

\* C17 as stated: a turn whose endpoint setting is no URL fails with
\* 'Invalid API endpoint: ...' without a request having been created; and
\* a turn fails with that error only when its endpoint setting is no URL.
C17_InvalidEndpointOnly ==
  \A k \in 1..Len(calls) :
    LET c == calls[k]
        invalid == /\ c.pc = "done"
                   /\ TurnErrors(c.id) # <<>>
                   /\ StartsWithAt(TurnErrors(c.id)[1].val.value.text,
                                   Len(ErrorPrefix) + 1, ErrEndpointPrefix)
    IN  /\ (c.cfg.apiKey # <<>> /\ c.cfg.endpoint = MalformedEndpoint) =>
             (invalid /\ TurnEffects(c.id, "request") = <<>>)
        /\ invalid => c.cfg.endpoint = MalformedEndpoint

RECURSIVE CollapseRuns(_, _)
\* title with each maximal run of non-alphanumeric characters replaced by
\* one '_'; inRun: the character before was part of such a run
CollapseRuns(title, inRun) ==
  IF title = <<>> THEN <<>>
  ELSE IF IsAlnum(Head(title)) THEN <<Head(title)>> \o CollapseRuns(Tail(title), FALSE)
  ELSE (IF inRun THEN <<>> ELSE <<"_">>) \o CollapseRuns(Tail(title), TRUE)

\* the slug of a title as the claim describes it
CollapsedSlug(title) == toLowerCase(CollapseRuns(title, FALSE))

\* C18 as stated: the file of an HTML block whose content has a title is
\* named <slug>.html, the slug being the title in lower case with each
\* maximal run of non-alphanumeric characters collapsed to one separator;
\* the file of an HTML block without a title gets the default name.
C18_TitleSlug ==
  (probe.fn = "_createFile" /\ probe.done
     /\ toLowerCase(probe.arg.language) = HtmlExt) =>
    LET m == TitleMatch(probe.arg.code)
    IN  IF m # <<>> /\ m[1] # <<>>
          THEN probe.out = CollapsedSlug(m[1]) \o <<".">> \o HtmlExt
          ELSE probe.out = DefaultName(probe.arg.now, HtmlExt)

\* C19 as stated: the extension of a tag is that of the tag in lower case;
\* each of the 20 known identifiers has its extension; every other tag,
\* the empty one included, has 'txt'.
C19_ExtensionFor ==
  (probe.fn = "_getFileExtension" /\ probe.done) =>
    LET key   == toLowerCase(probe.arg)
        known == {k \in 1..Len(extensionMap) : extensionMap[k].key = key}
    IN  /\ Len(extensionMap) = 20
        /\ probe.out = _getFileExtension(key)
        /\ IF known # {}
             THEN \A k \in known : probe.out = extensionMap[k].val
             ELSE probe.out = TxtExt

\* the line break that ends the line of the fence at i, whose tag ends
\* before e: 0 when something other than blanks follows the tag
FenceLineEnd(s, e) ==
  LET nls == {n \in e..Len(s) : s[n] = "\n"}
  IN  IF nls = {} THEN 0
      ELSE IF \A q \in e..(Least(nls) - 1) : s[q] \in {" ", "\t", "\r"}
        THEN Least(nls) ELSE 0

\* the block of the opening fence at i paired with the nearest closing
\* fence (a fence at the start of a line) after it; <<>> when i holds no
\* opening fence or no closing fence follows
NearestBlockAt(s, i) ==
  IF ~StartsWithAt(s, i, Fence) THEN <<>>
  ELSE
    LET langEnd == WordRunEnd(s, i + 3)
        n       == FenceLineEnd(s, langEnd)
    IN  IF n = 0 \/ ClosesFrom(s, n) = {} THEN <<>>
        ELSE LET j == Least(ClosesFrom(s, n))
             IN  << [language |-> SubSeq(s, i + 3, langEnd - 1),
                     code     |-> trim(SubSeq(s, n + 1, j - 1)),
                     next     |-> j + Len(CloseFence)] >>

RECURSIVE NearestFrom(_, _)
\* the blocks of s from position i on, left to right, each opening fence
\* paired with the nearest closing fence
NearestFrom(s, i) ==
  LET hits == {p \in i..Len(s) : NearestBlockAt(s, p) # <<>>}
  IN  IF hits = {} THEN <<>>
      ELSE LET m == NearestBlockAt(s, Least(hits))[1]
           IN  << [language |-> m.language, code |-> m.code] >>
               \o NearestFrom(s, m.next)

\* C20 as stated: the blocks extracted from a text are, in text order, the
\* trimmed contents between each opening fence and the nearest closing
\* fence after it; a fence that is not closed gives no block, a text
\* without fences gives none.
C20_NearestClose ==
  (probe.fn = "_extractCodeBlocks" /\ probe.done) =>
    probe.out = NearestFrom(probe.arg, 1)

\* this step handles a webviewReady event whose posts differ from those of
\* the event before it, if any
WebviewReadyStep == replay' # <<>> /\ replay' # replay

\* C21: a webviewReady event is handled in every state of the session with
\* a view; the handler posts one addMessage for each entry of the history,
\* in history order, with isUser true exactly for the entries of role
\* 'user', and one setModels; and it changes neither the history nor
\* _isProcessing nor any invocation in progress or its request.
C21_Replay ==
  /\ [](view => ENABLED WebviewReady)
  /\ [][WebviewReadyStep =>
          LET posts == replay'[1].posts
              n     == Len(conversationHistory)
          IN  /\ Len(posts) = n + 1
              /\ \A i \in 1..n :
                   /\ posts[i].kind = "post"
                   /\ posts[i].val.type = "addMessage"
                   /\ posts[i].val.value.text = conversationHistory[i].content
                   /\ posts[i].val.value.isUser = (conversationHistory[i].role = "user")
              /\ posts[n + 1].kind = "post"
              /\ posts[n + 1].val.type = "setModels"
              /\ UNCHANGED <<view, conversationHistory, isProcessing, selectedModel,
                             calls, turnCount, clock, log>>]_vars

\* a webviewReady event was handled while the file of a block was being
\* written: a user message and an assistant message were replayed
C21_Witness ==
  /\ replay # <<>>
  /\ replay[1].during # {}
  /\ Len(replay[1].posts) = 3
  /\ replay[1].posts[2].val.value.isUser = FALSE
  /\ isProcessing

\* the addMessage events of a webviewReady event r that carry the reply of
\* invocation c: the history entry after c's user message
ReplayedReply(r, c) ==
  {i \in 1..Len(r.posts) :
     /\ i = Len(c.hist0) + 2
     /\ r.posts[i].val.type = "addMessage"
     /\ ~r.posts[i].val.value.isUser}

\* C22 as stated: the assistant reply of a turn goes to the webview once.
\* When a webviewReady event was handled while the turn was in progress,
\* the reply is not both in what that event replayed and in an addMessage
\* the turn posts afterwards.
C22_ReplyOnce ==
  \A k \in 1..Len(calls) :
    LET c == calls[k]
    IN  (replay # <<>> /\ c.id \in replay[1].during) =>
          Cardinality(ReplayedReply(replay[1], c))
            + (IF c.pc = "done" /\ c.outcome = "ok" THEN Len(TurnAdds(c.id)) ELSE 0) <= 1

\* the typing-indicator events in a log, in order
TypingEvents(lg) == SelectSeq(lg, IsTyping)

\* C23: the typing indicator is never left on.  Whenever the session is
\* Idle the last typing-indicator event of the last turn, if it posted
\* any, is 'off'; and in the log of a turn that has returned every
\* 'typing indicator on' is followed by a 'typing indicator off' that comes
\* before _isProcessing = false.
C23_TypingOff ==
  /\ ~isProcessing =>
       (TypingEvents(log) = <<>>
          \/ ~TypingEvents(log)[Len(TypingEvents(log))].val.value.on)
  /\ \A k \in 1..Len(calls) :
       LET c  == calls[k]
           tl == TurnLog(c.id)
       IN  c.pc = "done" =>
             \A p \in 1..Len(tl) :
               (IsTyping(tl[p]) /\ tl[p].val.value.on) =>
                 \E q \in (p + 1)..Len(tl) :
                   /\ IsTyping(tl[q])
                   /\ ~tl[q].val.value.on
                   /\ \A i \in 1..q : tl[i].kind # "idle"

\* a turn whose request ended on a transport error has returned: it
\* showed the typing indicator and hid it
C23_Witness ==
  \E k \in 1..Len(calls) :
    /\ calls[k].pc = "done"
    /\ calls[k].delivered # <<>>
    /\ calls[k].delivered[1].neterr
    /\ Len(TypingEvents(log)) = 2
    /\ ~isProcessing

====
